---------------------------- MODULE Spec2Model ----------------------------
(***************************************************************************)
(* RadioGram, src/lora_chat.py: the framed-serial bridge to the Inkplate   *)
(* peripheral (class InkplateBridge: outbound queue and worker, inbound    *)
(* worker, close) and the link session of the chat node (class ChatNode).  *)
(*                                                                         *)
(* The three parts share one set of variables.  SpecTx runs the producers  *)
(* of the outbound queue and _tx_worker, SpecRx the inbound byte stream    *)
(* and _rx_worker, SpecChat the ChatNode, SpecClose both workers under     *)
(* close() with the time their blocking calls take.                        *)
(***************************************************************************)
EXTENDS Integers, Sequences, FiniteSets, TLC

\* ------------------------------------------------------------ bounds ----

\* queue.Queue(maxsize=100) at src/lora_chat.py:45, scaled: the model keeps
\* the capacity as a parameter and checks it at a small value.
QueueMaxsize == 3
\* Number of successful put_nowait calls explored.
MaxAdmitted == 5
\* Threads that call send_txtp / send_json (rx worker through the callback,
\* mesh callback threads, the control thread).
NSenders == 2
\* Calls of InkplateBridge.close explored.
MaxCloseCalls == 2
\* Chunks (frames, pieces of garbage) the peripheral sends.
MaxChunks == 2
\* Link objects created (by connect and by peers).
MaxLinks == 2
\* Calls of connect explored.
MaxCmds == 2
\* Length of the address strings given to connect.
MaxHexLen == 2
\* Iterations of the resolution loop before its timeout is certain:
\* PATH_WAIT_TIMEOUT / PATH_WAIT_STEP (src lines 22-23) is 100, scaled.
MaxPolls == 2
\* Longest message framed and read back.
MaxFrameLen == 3
\* Runs of one character a long message is made of.
MaxRuns == 2
\* Items sent and frames received while both workers and close() run
\* together (SpecClose).
MaxCloseItems == 1
MaxCloseFrames == 1

\* ---------------------------------------------------------- constants ----

\* "if L == 0 or L > 60000" and "[:60000]".
MaxPayload == 60000

\* Durations, in tenths of a second.
\* serial.Serial(..., timeout=0.2, write_timeout=3, ...)
ser_timeout == 2
write_timeout == 30
\* self._q.get(timeout=0.2)
get_timeout == 2
\* time.sleep(0.4) of _tx_worker and of _rx_worker's "except Exception"
backoff == 4
\* time.sleep(1.0) of _rx_worker's "except serial.SerialException"
backoff_serial == 10
\* t.join(timeout=1.0)
join_timeout == 10

\* ------------------------------------------------------------- state ----

VARIABLES
    \* InkplateBridge, outbound
    q,            \* self._q: the pending items, oldest first
    stop,         \* self._stop
    n_admitted,   \* history: how many put_nowait calls succeeded so far
    s_pc,         \* per sender thread: where it is inside send_txtp/send_json
    s_kind,       \* per sender thread: the frame type of the call in progress
    send_raised,  \* history: some send call was left by an exception
    tx_pc,        \* _tx_worker: position
    tx_ser,       \* _tx_worker: local ser ("None" or "open")
    tx_item,      \* _tx_worker: local (frame_type, msg) just dequeued
    tx_last,      \* history: id of the last item handed to ser.write
    tx_failed,    \* history: id of the last item whose write raised
    n_dequeued,   \* history: how many items _tx_worker took from the queue
    close_pc,     \* close(): position of the calling thread
    close_calls,  \* history: calls of close() begun
    \* InkplateBridge, inbound
    sent,         \* history: the chunks the peripheral put on the line
    wire,         \* bytes on the line that have not reached the port yet
    inbuf,        \* the port's input buffer (bytes received, not yet read)
    on_text,      \* self._on_text is set
    rx_pc,        \* _rx_worker: position
    rx_ser,       \* _rx_worker: local ser ("None" or "open")
    rx_buf,       \* _read_exact: buf
    rx_L,         \* _rx_worker: L
    delivered,    \* history: the calls of self._on_text
    rx_fault,     \* history: input was lost other than by resynchronising
    \* ChatNode
    link,         \* self.link: 0 for None, else the Link object's number
    l_status,     \* per Link object: its status as the mesh stack keeps it
    l_origin,     \* per Link object: created by connect or by the peer
    n_links,      \* history: Link objects created so far
    peer_hash,    \* self.peer_hash: {} for None, else {the address bytes}
    c_pc,         \* position of the thread that handles commands: "idle", in
                  \* connect ("wait", "recall", "link"), with a line just
                  \* read ("line"), at _handle_command's test of the link
                  \* ("plain"), in send_text ("check", "send")
    c_polls,      \* _wait_for_path_and_identity: iterations of the loop so far
                  \* in this call (each is one request_path and one sleep)
    c_malformed,  \* history: the last connect argument was malformed hex
    m_path,       \* mesh: RNS.Transport.has_path(peer) as of now
    m_ident,      \* mesh: RNS.Identity.recall(peer) is not None as of now
    n_cmds,       \* history: connect calls begun
    report,       \* history: the last status line printed, by kind
    \* ChatNode.send_text and the handling of message lines
    t_line,       \* the line just read and the surface it came from
    t_text,       \* the text of the message being handled (<<>> when none is)
    t_checked,    \* history: the Link the check at 301 found active
    last_send,    \* history: the last pkt.send(): [link, data, ok]
    run_mode,     \* the loop main runs: "console", "screen", "ended" when
                  \* it was left; "start" until the first input shows which
    \* _handle_command's reading of a line, on its own
    p_line,       \* the line, in its parts
    p_out,        \* what _handle_command took it for
    \* the framing of one item and the reading of the bytes, on their own
    f_in,         \* the item: [frame_type, msg]
    f_wire,       \* the bytes _tx_worker writes for it
    f_out,        \* what _rx_worker makes of these bytes
    f_long,       \* a long item and the frame made of it, both in runs
    \* time, kept from the moment close() sets the stop flag
    since_stop,   \* tenths of a second since then (it stays at MaxClock)
    tx_spent,     \* _tx_worker: [pc, t], the time t it has spent at pc
    rx_spent      \* _rx_worker: the same

sendvars == <<n_admitted, s_pc, s_kind, send_raised>>
workvars == <<tx_pc, tx_ser, tx_item, tx_last, tx_failed, n_dequeued>>
txvars == <<q, sendvars, workvars>>
closevars == <<stop, close_pc, close_calls>>
rxwork == <<on_text, rx_pc, rx_ser, rx_buf, rx_L, delivered, rx_fault>>
rxvars == <<sent, wire, inbuf, rxwork>>

sessvars == <<link, l_status, l_origin, n_links, peer_hash>>
connvars == <<c_pc, c_polls, c_malformed, n_cmds>>
meshvars == <<m_path, m_ident>>
chatvars == <<sessvars, connvars, meshvars, report>>
textvars == <<t_line, t_text, t_checked, last_send>>
cmdvars == <<p_line, p_out>>
framevars == <<f_in, f_wire, f_out, f_long>>
appvars == <<chatvars, textvars, run_mode, cmdvars, framevars>>

timevars == <<since_stop, tx_spent, rx_spent>>

vars == <<txvars, closevars, rxvars, appvars, timevars>>

\* What each part leaves alone.
nontx == <<closevars, rxvars, appvars, timevars>>
nonclose == <<txvars, rxvars, appvars>>
nonrx == <<txvars, closevars, appvars, timevars>>
restvars == <<txvars, closevars, rxvars, timevars, cmdvars, framevars>>
nonchat == <<restvars, textvars, run_mode>>

Senders == 1..NSenders
Kinds == {"TXTP", "JCTL"}
NoItem == [id |-> 0, kind |-> "none"]

Min(a, b) == IF a < b THEN a ELSE b

\* -------------------------------------------------- queue.Queue model ----

\* Queue.full() for maxsize > 0.
QFull(qq) == Len(qq) >= QueueMaxsize

\* Queue.get_nowait() on a non-empty queue: the item returned.
QHead(qq) == Head(qq)

\* The queue after Queue.get_nowait() removed the item it returned.
QRest(qq) == Tail(qq)

\* The queue after Queue.put_nowait(item) succeeded.
QPut(qq, item) == Append(qq, item)

\* ------------------------------------ send_txtp / send_json (58-77) ----

\* Calls in progress: each may still admit one item.
InProgress == Cardinality({t \in Senders : s_pc[t] # "idle"})
MayBegin == n_admitted + InProgress < MaxAdmitted

\* put_nowait succeeded: the item is pending and the call returns.
Admit(t, k) ==
    /\ q' = QPut(q, [id |-> n_admitted + 1, kind |-> k])
    /\ n_admitted' = n_admitted + 1
    /\ s_pc' = [s_pc EXCEPT ![t] = "idle"]
    /\ s_kind' = [s_kind EXCEPT ![t] = "none"]
    /\ UNCHANGED send_raised

\* The first put_nowait finds room: the call returns.
send_put(t, k) ==
    /\ s_pc[t] = "idle" /\ MayBegin
    /\ ~QFull(q)
    /\ Admit(t, k)
    /\ UNCHANGED <<workvars, nontx>>

\* The first put_nowait raises queue.Full: the thread enters the handler.
send_full(t, k) ==
    /\ s_pc[t] = "idle" /\ MayBegin
    /\ QFull(q)
    /\ s_pc' = [s_pc EXCEPT ![t] = "evict"]
    /\ s_kind' = [s_kind EXCEPT ![t] = k]
    /\ UNCHANGED <<q, n_admitted, send_raised, workvars, nontx>>

\* A mutant of the eviction: the newest pending item is evicted.
EvictedNewest(qq) == IF qq = <<>> THEN qq ELSE SubSeq(qq, 1, Len(qq) - 1)

\* The queue the handler's get_nowait leaves (queue.Empty is passed over).
Evicted(qq) == IF qq = <<>> THEN qq ELSE QRest(qq)

\* try: self._q.get_nowait() / except queue.Empty: pass
send_evict(t) ==
    /\ s_pc[t] = "evict"
    /\ q' = Evicted(q)
    /\ s_pc' = [s_pc EXCEPT ![t] = "retry"]
    /\ UNCHANGED <<n_admitted, s_kind, send_raised, workvars, nontx>>

\* The handler's second put_nowait finds room.
send_retry(t) ==
    /\ s_pc[t] = "retry"
    /\ ~QFull(q)
    /\ Admit(t, s_kind[t])
    /\ UNCHANGED <<workvars, nontx>>

\* The handler's second put_nowait raises queue.Full: nothing catches it
\* (it is raised inside the except clause), so it leaves the call.
send_retry_full(t) ==
    /\ s_pc[t] = "retry"
    /\ QFull(q)
    /\ s_pc' = [s_pc EXCEPT ![t] = "idle"]
    /\ s_kind' = [s_kind EXCEPT ![t] = "none"]
    /\ send_raised' = TRUE
    /\ UNCHANGED <<q, n_admitted, workvars, nontx>>

\* send_json with a dictionary json.dumps rejects: TypeError is caught, a
\* warning is printed, nothing is enqueued and the call returns.
send_json_typeerror(t) ==
    /\ s_pc[t] = "idle" /\ MayBegin
    /\ UNCHANGED <<txvars, nontx>>

Send ==
    \E t \in Senders :
        \/ \E k \in Kinds : send_put(t, k)
        \/ \E k \in Kinds : send_full(t, k)
        \/ send_evict(t)
        \/ send_retry(t)
        \/ send_retry_full(t)
        \/ send_json_typeerror(t)

\* ------------------------------------------------ close() (84-88) ----

\* self._stop = True
set_stop ==
    /\ close_pc = "idle" /\ close_calls < MaxCloseCalls
    /\ stop' = TRUE
    /\ close_pc' = "join"
    /\ close_calls' = close_calls + 1
    /\ UNCHANGED nonclose

\* close() is called (time is not looked at).
close_begin == set_stop /\ UNCHANGED timevars

\* for t in (self._tx_t, self._rx_t): t.join(timeout=1.0) -- each join
\* returns when its thread has ended or after the timeout, whichever is
\* first; then close() returns.
close_join ==
    /\ close_pc = "join"
    /\ close_pc' = "idle"
    /\ UNCHANGED <<stop, close_calls, nonclose, timevars>>

Close == close_begin \/ close_join

\* ------------------------------------------- _tx_worker (116-149) ----

\* while not self._stop
tx_loop ==
    /\ tx_pc = "loop"
    /\ tx_pc' = IF stop THEN "exit" ELSE "open"
    /\ UNCHANGED <<q, sendvars, tx_ser, tx_item, tx_last, tx_failed,
                   n_dequeued, nontx>>

\* if ser is None or not ser.is_open: ser = self._open()  -- succeeds.
\* _open ends with ser.reset_input_buffer(), which empties the input buffer
\* of the port (the device's, shared with the inbound worker's handle).
tx_open ==
    /\ tx_pc = "open" /\ tx_ser = "None"
    /\ tx_ser' = "open"
    /\ inbuf' = <<>>
    /\ rx_fault' = (rx_fault \/ inbuf # <<>>)
    /\ tx_pc' = "get"
    /\ UNCHANGED <<q, sendvars, tx_item, tx_last, tx_failed, n_dequeued,
                   closevars, sent, wire, on_text, rx_pc, rx_ser, rx_buf,
                   rx_L, delivered, appvars, timevars>>

\* ser is open already: nothing to do before the dequeue.
tx_open_skip ==
    /\ tx_pc = "open" /\ tx_ser = "open"
    /\ tx_pc' = "get"
    /\ UNCHANGED <<q, sendvars, tx_ser, tx_item, tx_last, tx_failed,
                   n_dequeued, nontx>>

\* self._open() raises (the port is absent): the except clause is entered.
tx_open_fail ==
    /\ tx_pc = "open" /\ tx_ser = "None"
    /\ tx_pc' = "except"
    /\ UNCHANGED <<q, sendvars, tx_ser, tx_item, tx_last, tx_failed,
                   n_dequeued, nontx>>

\* A mutant of the dequeue: the newest pending item is taken.
tx_get_newest ==
    /\ tx_pc = "get" /\ q # <<>>
    /\ tx_item' = q[Len(q)]
    /\ q' = SubSeq(q, 1, Len(q) - 1)
    /\ n_dequeued' = n_dequeued + 1
    /\ tx_pc' = "write"
    /\ UNCHANGED <<sendvars, tx_ser, tx_last, tx_failed, nontx>>

\* frame_type, msg = self._q.get(timeout=0.2)
tx_get ==
    /\ tx_pc = "get" /\ q # <<>>
    /\ tx_item' = QHead(q)
    /\ q' = QRest(q)
    /\ n_dequeued' = n_dequeued + 1
    /\ tx_pc' = "write"
    /\ UNCHANGED <<sendvars, tx_ser, tx_last, tx_failed, nontx>>

\* except queue.Empty: continue
tx_get_empty ==
    /\ tx_pc = "get" /\ q = <<>>
    /\ tx_pc' = "loop"
    /\ UNCHANGED <<q, sendvars, tx_ser, tx_item, tx_last, tx_failed,
                   n_dequeued, nontx>>

\* ser.write(frame); ser.flush()  -- both succeed
tx_write ==
    /\ tx_pc = "write"
    /\ tx_last' = tx_item.id
    /\ tx_item' = NoItem
    /\ tx_pc' = "loop"
    /\ UNCHANGED <<q, sendvars, tx_ser, tx_failed, n_dequeued, nontx>>

\* A mutant of the failure path: the dequeued item is put back.
tx_write_fail_requeue ==
    /\ tx_pc = "write"
    /\ tx_last' = tx_item.id
    /\ tx_failed' = tx_item.id
    /\ q' = <<tx_item>> \o q
    /\ tx_item' = NoItem
    /\ tx_pc' = "except"
    /\ UNCHANGED <<sendvars, tx_ser, n_dequeued, nontx>>

\* ser.write or ser.flush raises (write timeout, device gone): the except
\* clause is entered with the item already taken from the queue.
tx_write_fail ==
    /\ tx_pc = "write"
    /\ tx_last' = tx_item.id
    /\ tx_failed' = tx_item.id
    /\ tx_item' = NoItem
    /\ tx_pc' = "except"
    /\ UNCHANGED <<q, sendvars, tx_ser, n_dequeued, nontx>>

\* except Exception: ... ser.close(); ser = None
tx_except ==
    /\ tx_pc = "except"
    /\ tx_ser' = "None"
    /\ tx_pc' = "sleep"
    /\ UNCHANGED <<q, sendvars, tx_item, tx_last, tx_failed, n_dequeued,
                   nontx>>

\* time.sleep(0.4)
tx_sleep ==
    /\ tx_pc = "sleep"
    /\ tx_pc' = "loop"
    /\ UNCHANGED <<q, sendvars, tx_ser, tx_item, tx_last, tx_failed,
                   n_dequeued, nontx>>

\* After the loop: if ser: ser.close()
tx_exit ==
    /\ tx_pc = "exit"
    /\ tx_ser' = "None"
    /\ tx_pc' = "done"
    /\ UNCHANGED <<q, sendvars, tx_item, tx_last, tx_failed, n_dequeued,
                   nontx>>

TxWorker ==
    \/ tx_loop \/ tx_open \/ tx_open_skip \/ tx_open_fail \/ tx_get \/ tx_get_empty
    \/ tx_write \/ tx_write_fail \/ tx_except \/ tx_sleep \/ tx_exit

\* ------------------------------------------------ inbound bytes ----

\* Byte values used on the line.
TXIN == <<84, 88, 73, 78>>
EVNT == <<69, 86, 78, 84>>
InboundTags == {EVNT, TXIN}

\* struct-free reading of the length: ln[0] | (ln[1] << 8)
LenOf(ln) == ln[1] + ln[2] * 256

\* The two length bytes of a payload of n bytes (n < 65536), low byte first.
LenBytes(n) == <<n % 256, n \div 256>>

\* What the peripheral may put on the line: valid frames and garbage.
FrameChunk(tag, payload) ==
    [kind |-> "frame", bytes |-> tag \o LenBytes(Len(payload)) \o payload,
     payload |-> payload]
GarbageChunk(bytes) == [kind |-> "garbage", bytes |-> bytes, payload |-> <<>>]

Chunks ==
    { FrameChunk(TXIN, <<32, 255>>),     \* " " and a byte that is not UTF-8
      GarbageChunk(<<0, 0, 0, 0>>),      \* one misread tag's worth of noise
      GarbageChunk(<<0>>),               \* noise that misaligns what follows
      GarbageChunk(TXIN \o <<0, 0>>),    \* a frame header announcing length 0
      GarbageChunk(EVNT \o <<1, 255>>) } \* ... announcing 65281 > 60000

\* data.decode("utf-8", errors="replace") on single bytes: ASCII is kept, a
\* byte that starts no valid sequence becomes U+FFFD.
DecodeByte(b) == IF b < 128 THEN b ELSE 65533
Decode(data) == [i \in 1..Len(data) |-> DecodeByte(data[i])]

\* str.strip(): leading and trailing whitespace removed.
IsSpace(c) == c \in {9, 10, 11, 12, 13, 28, 29, 30, 31, 32, 133, 160}
RECURSIVE LStrip(_)
LStrip(t) == IF t # <<>> /\ IsSpace(Head(t)) THEN LStrip(Tail(t)) ELSE t
RECURSIVE RStrip(_)
RStrip(t) ==
    IF t # <<>> /\ IsSpace(t[Len(t)]) THEN RStrip(SubSeq(t, 1, Len(t) - 1))
    ELSE t
Strip(t) == RStrip(LStrip(t))

\* The text the callback is given for a payload read in full.
TextOf(payload) == Strip(Decode(payload))

\* The peripheral writes a chunk.
peripheral_send(c) ==
    /\ Len(sent) < MaxChunks
    /\ sent' = Append(sent, c)
    /\ wire' = wire \o c.bytes
    /\ UNCHANGED <<inbuf, rxwork, nonrx>>

\* The next byte on the line reaches the port's input buffer.
arrive ==
    /\ wire # <<>>
    /\ inbuf' = Append(inbuf, Head(wire))
    /\ wire' = Tail(wire)
    /\ UNCHANGED <<sent, rxwork, nonrx>>

\* set_on_text (54-55), called by _run_screen_mode (460).
set_on_text ==
    /\ ~on_text
    /\ on_text' = TRUE
    /\ UNCHANGED <<sent, wire, inbuf, rx_pc, rx_ser, rx_buf, rx_L, delivered,
                   rx_fault, nonrx>>

\* ------------------------------------------- _rx_worker (151-201) ----

\* while not self._stop
rx_loop ==
    /\ rx_pc = "loop"
    /\ rx_pc' = IF stop THEN "exit" ELSE "open"
    /\ UNCHANGED <<sent, wire, inbuf, on_text, rx_ser, rx_buf, rx_L,
                   delivered, rx_fault, nonrx>>

\* if ser is None or not ser.is_open: ser = self._open()  -- succeeds;
\* _open resets the input buffer.  Then _read_exact(ser, 4) starts.
rx_open ==
    /\ rx_pc = "open" /\ rx_ser = "None"
    /\ rx_ser' = "open"
    /\ inbuf' = <<>>
    /\ rx_fault' = (rx_fault \/ inbuf # <<>>)
    /\ rx_buf' = <<>>
    /\ rx_pc' = "hdr"
    /\ UNCHANGED <<sent, wire, on_text, rx_L, delivered, nonrx>>

\* ser is open already: _read_exact(ser, 4) starts.
rx_open_skip ==
    /\ rx_pc = "open" /\ rx_ser = "open"
    /\ rx_buf' = <<>>
    /\ rx_pc' = "hdr"
    /\ UNCHANGED <<sent, wire, inbuf, on_text, rx_ser, rx_L, delivered,
                   rx_fault, nonrx>>

\* self._open() raises serial.SerialException.
rx_open_fail ==
    /\ rx_pc = "open" /\ rx_ser = "None"
    /\ rx_pc' = "except_serial"
    /\ UNCHANGED <<sent, wire, inbuf, on_text, rx_ser, rx_buf, rx_L,
                   delivered, rx_fault, nonrx>>

\* The number of bytes the _read_exact in progress was asked for.
Wanted == CASE rx_pc = "hdr" -> 4
            [] rx_pc = "len" -> 2
            [] rx_pc = "data" -> rx_L
            [] OTHER -> 0
Reading == rx_pc \in {"hdr", "len", "data"}

\* _read_exact: the loop condition holds and ser.read returns bytes.
read_exact_read ==
    /\ Reading /\ Len(rx_buf) < Wanted /\ ~stop
    /\ inbuf # <<>>
    /\ LET k == Min(Wanted - Len(rx_buf), Len(inbuf))
       IN /\ rx_buf' = rx_buf \o SubSeq(inbuf, 1, k)
          /\ inbuf' = SubSeq(inbuf, k + 1, Len(inbuf))
    /\ UNCHANGED <<sent, wire, on_text, rx_pc, rx_ser, rx_L, delivered,
                   rx_fault, nonrx>>

\* _read_exact: ser.read returns nothing and the time is up: return None,
\* and the worker's "if ... is None: continue".
read_exact_timeout ==
    /\ Reading /\ Len(rx_buf) < Wanted /\ ~stop
    /\ inbuf = <<>>
    /\ rx_fault' = (rx_fault \/ rx_buf # <<>> \/ rx_pc # "hdr")
    /\ rx_buf' = <<>>
    /\ rx_L' = 0
    /\ rx_pc' = "loop"
    /\ UNCHANGED <<sent, wire, inbuf, on_text, rx_ser, delivered, nonrx>>

\* ser.read raises serial.SerialException (the device went away).
read_exact_error ==
    /\ Reading /\ Len(rx_buf) < Wanted /\ ~stop
    /\ rx_fault' = TRUE
    /\ rx_buf' = <<>>
    /\ rx_L' = 0
    /\ rx_pc' = "except_serial"
    /\ UNCHANGED <<sent, wire, inbuf, on_text, rx_ser, delivered, nonrx>>

\* The loop of _read_exact is over: n bytes are collected, or self._stop is
\* set; either way it returns bytes(buf).
ReadReturns == Reading /\ (Len(rx_buf) >= Wanted \/ stop)

\* hdr not in [b"EVNT", b"TXIN"]: ser.reset_input_buffer(); continue
rx_hdr_bad ==
    /\ rx_pc = "hdr" /\ ReadReturns
    /\ rx_buf \notin InboundTags
    /\ inbuf' = <<>>
    /\ rx_buf' = <<>>
    /\ rx_pc' = "loop"
    /\ UNCHANGED <<sent, wire, on_text, rx_ser, rx_L, delivered, rx_fault,
                   nonrx>>

\* A known tag: ln = self._read_exact(ser, 2) starts.
rx_hdr_ok ==
    /\ rx_pc = "hdr" /\ ReadReturns
    /\ rx_buf \in InboundTags
    /\ rx_buf' = <<>>
    /\ rx_pc' = "len"
    /\ UNCHANGED <<sent, wire, inbuf, on_text, rx_ser, rx_L, delivered,
                   rx_fault, nonrx>>

\* ln is shorter than two bytes (self._stop ended the read): ln[0] or ln[1]
\* raises IndexError, which "except Exception" catches.
rx_len_short ==
    /\ rx_pc = "len" /\ ReadReturns
    /\ Len(rx_buf) < 2
    /\ rx_buf' = <<>>
    /\ rx_pc' = "except"
    /\ UNCHANGED <<sent, wire, inbuf, on_text, rx_ser, rx_L, delivered,
                   rx_fault, nonrx>>

\* A variant of the test of the length: every length is taken.
rx_len_bad_accepts ==
    /\ rx_pc = "len" /\ ReadReturns
    /\ Len(rx_buf) >= 2
    /\ LenOf(rx_buf) = 0 \/ LenOf(rx_buf) > MaxPayload
    /\ rx_L' = LenOf(rx_buf)
    /\ rx_buf' = <<>>
    /\ rx_pc' = "data"
    /\ UNCHANGED <<sent, wire, inbuf, on_text, rx_ser, delivered, rx_fault,
                   nonrx>>

\* L == 0 or L > 60000: ser.reset_input_buffer(); continue
rx_len_bad ==
    /\ rx_pc = "len" /\ ReadReturns
    /\ Len(rx_buf) >= 2
    /\ LenOf(rx_buf) = 0 \/ LenOf(rx_buf) > MaxPayload
    /\ inbuf' = <<>>
    /\ rx_buf' = <<>>
    /\ rx_pc' = "loop"
    /\ UNCHANGED <<sent, wire, on_text, rx_ser, rx_L, delivered, rx_fault,
                   nonrx>>

\* An acceptable length: data = self._read_exact(ser, L) starts.
rx_len_ok ==
    /\ rx_pc = "len" /\ ReadReturns
    /\ Len(rx_buf) >= 2
    /\ ~(LenOf(rx_buf) = 0 \/ LenOf(rx_buf) > MaxPayload)
    /\ rx_L' = LenOf(rx_buf)
    /\ rx_buf' = <<>>
    /\ rx_pc' = "data"
    /\ UNCHANGED <<sent, wire, inbuf, on_text, rx_ser, delivered, rx_fault,
                   nonrx>>

\* data is not None: text = data.decode(...).strip(); self._on_text is set:
\* the callback is called with text.
rx_data_call ==
    /\ rx_pc = "data" /\ ReadReturns
    /\ on_text
    /\ delivered' = Append(delivered, [text |-> TextOf(rx_buf),
                                       got |-> Len(rx_buf), L |-> rx_L,
                                       raised |-> FALSE])
    /\ rx_buf' = <<>>
    /\ rx_L' = 0
    /\ rx_pc' = "callback"
    /\ UNCHANGED <<sent, wire, inbuf, on_text, rx_ser, rx_fault, nonrx>>

\* self._on_text is None: the frame is read and nothing is called.
rx_data_nocb ==
    /\ rx_pc = "data" /\ ReadReturns
    /\ ~on_text
    /\ rx_fault' = TRUE
    /\ rx_buf' = <<>>
    /\ rx_L' = 0
    /\ rx_pc' = "loop"
    /\ UNCHANGED <<sent, wire, inbuf, on_text, rx_ser, delivered, nonrx>>

\* self._on_text(text) returns.
rx_callback_return ==
    /\ rx_pc = "callback"
    /\ rx_pc' = "loop"
    /\ UNCHANGED <<sent, wire, inbuf, on_text, rx_ser, rx_buf, rx_L,
                   delivered, rx_fault, nonrx>>

\* A mutant of the callback's guard: the exception reaches the worker's
\* outer handlers.
rx_callback_raise_uncaught ==
    /\ rx_pc = "callback"
    /\ delivered' = [delivered EXCEPT ![Len(delivered)].raised = TRUE]
    /\ rx_pc' = "except"
    /\ UNCHANGED <<sent, wire, inbuf, on_text, rx_ser, rx_buf, rx_L,
                   rx_fault, nonrx>>

\* self._on_text(text) raises: "except Exception as e: print(...)" around
\* the call (179-182), and the loop goes on.
rx_callback_raise ==
    /\ rx_pc = "callback"
    /\ delivered' = [delivered EXCEPT ![Len(delivered)].raised = TRUE]
    /\ rx_pc' = "loop"
    /\ UNCHANGED <<sent, wire, inbuf, on_text, rx_ser, rx_buf, rx_L,
                   rx_fault, nonrx>>

\* except serial.SerialException / except Exception: ser.close(); ser = None
rx_except ==
    /\ rx_pc \in {"except", "except_serial"}
    /\ rx_ser' = "None"
    /\ rx_pc' = IF rx_pc = "except_serial" THEN "sleep_serial" ELSE "sleep"
    /\ UNCHANGED <<sent, wire, inbuf, on_text, rx_buf, rx_L, delivered,
                   rx_fault, nonrx>>

\* time.sleep(1.0) / time.sleep(0.4)
rx_sleep ==
    /\ rx_pc \in {"sleep", "sleep_serial"}
    /\ rx_pc' = "loop"
    /\ UNCHANGED <<sent, wire, inbuf, on_text, rx_ser, rx_buf, rx_L,
                   delivered, rx_fault, nonrx>>

\* After the loop: if ser: ser.close()
rx_exit ==
    /\ rx_pc = "exit"
    /\ rx_ser' = "None"
    /\ rx_pc' = "done"
    /\ UNCHANGED <<sent, wire, inbuf, on_text, rx_buf, rx_L, delivered,
                   rx_fault, nonrx>>

RxWorker ==
    \/ rx_loop \/ rx_open \/ rx_open_skip \/ rx_open_fail
    \/ read_exact_read \/ read_exact_timeout \/ read_exact_error
    \/ rx_hdr_bad \/ rx_hdr_ok \/ rx_len_short \/ rx_len_bad \/ rx_len_ok
    \/ rx_data_call \/ rx_data_nocb
    \/ rx_callback_return \/ rx_callback_raise
    \/ rx_except \/ rx_sleep \/ rx_exit

Peripheral == (\E c \in Chunks : peripheral_send(c)) \/ arrive

\* ---------------------------------------------- bytes.fromhex ----

HexValue ==
    [c \in {"0", "1", "2", "3", "4", "5", "6", "7", "8", "9",
            "a", "b", "c", "d", "e", "f", "A", "B", "C", "D", "E", "F"} |->
        CASE c = "0" -> 0 [] c = "1" -> 1 [] c = "2" -> 2 [] c = "3" -> 3
          [] c = "4" -> 4 [] c = "5" -> 5 [] c = "6" -> 6 [] c = "7" -> 7
          [] c = "8" -> 8 [] c = "9" -> 9
          [] c \in {"a", "A"} -> 10 [] c \in {"b", "B"} -> 11
          [] c \in {"c", "C"} -> 12 [] c \in {"d", "D"} -> 13
          [] c \in {"e", "E"} -> 14 [] c \in {"f", "F"} -> 15]
IsHexDigit(c) == c \in DOMAIN HexValue
IsHexSpace(c) == c \in {" ", "\t", "\n", "\r"}

\* bytes.fromhex(s): whitespace is skipped before each byte; a byte is two
\* adjacent hex digits; anything else raises ValueError.
RECURSIVE FromHexFrom(_, _)
FromHexFrom(s, acc) ==
    IF s = <<>> THEN [ok |-> TRUE, bytes |-> acc]
    ELSE IF IsHexSpace(Head(s)) THEN FromHexFrom(Tail(s), acc)
    ELSE IF Len(s) >= 2 /\ IsHexDigit(s[1]) /\ IsHexDigit(s[2])
         THEN FromHexFrom(SubSeq(s, 3, Len(s)),
                          Append(acc, 16 * HexValue[s[1]] + HexValue[s[2]]))
    ELSE [ok |-> FALSE, bytes |-> <<>>]
FromHex(s) == FromHexFrom(s, <<>>)

\* The characters address strings are made of here: two hex digits, a
\* character that is no hex digit, a space.
HexAlphabet == {"a", "1", "g", " "}
RECURSIVE StringsOfLen(_)
StringsOfLen(n) ==
    IF n = 0 THEN {<<>>}
    ELSE {Append(s, c) : s \in StringsOfLen(n - 1), c \in HexAlphabet}
\* connect is reached with a non-empty string (384, 445-446).
HexInputs == UNION {StringsOfLen(n) : n \in 1..MaxHexLen}

\* ---------------------------------------- ChatNode.connect (274-295) ----

Links == 1..MaxLinks

\* try: self.peer_hash = bytes.fromhex(peer_hex)
\* except ValueError: self._print_status("[!] Invalid Peer Hash"); return
\* A mutant: the failed parse forgets the stored address.
connect_invalid_forgets(h) ==
    /\ c_pc = "idle" /\ n_cmds < MaxCmds
    /\ ~FromHex(h).ok
    /\ peer_hash' = {}
    /\ report' = "InvalidAddress"
    /\ n_cmds' = n_cmds + 1
    /\ c_malformed' = TRUE
    /\ UNCHANGED <<link, l_status, l_origin, n_links, c_pc, c_polls,
                   meshvars, nonchat>>

connect_invalid(h) ==
    /\ c_pc = "idle" /\ n_cmds < MaxCmds
    /\ ~FromHex(h).ok
    /\ report' = "InvalidAddress"
    /\ n_cmds' = n_cmds + 1
    /\ c_malformed' = ~FromHex(h).ok
    /\ UNCHANGED <<sessvars, c_pc, c_polls, meshvars, nonchat>>

\* The parse succeeds: self.peer_hash is assigned, and
\* _out_dest_for_peer -> _wait_for_path_and_identity starts (t0 is taken).
connect_begin(h) ==
    /\ c_pc = "idle" /\ n_cmds < MaxCmds
    /\ FromHex(h).ok
    /\ peer_hash' = {FromHex(h).bytes}
    /\ c_pc' = "wait"
    /\ c_polls' = 0
    /\ n_cmds' = n_cmds + 1
    /\ c_malformed' = ~FromHex(h).ok
    /\ UNCHANGED <<link, l_status, l_origin, n_links, report,
                   meshvars, nonchat>>

\* while not has_path(peer) or recall(peer) is None
Unresolved == ~m_path \/ ~m_ident

\* The loop condition holds and the time is not up:
\* RNS.Transport.request_path(peer_hash); time.sleep(PATH_WAIT_STEP)
wait_poll ==
    /\ c_pc = "wait" /\ Unresolved
    /\ c_polls < MaxPolls
    /\ c_polls' = c_polls + 1
    /\ UNCHANGED <<sessvars, c_pc, c_malformed, n_cmds, report, meshvars,
                   nonchat>>

\* The loop condition holds and time.time() - t0 > PATH_WAIT_TIMEOUT:
\* return None; _out_dest_for_peer raises RuntimeError; connect prints it
\* and returns; self.peer_hash, assigned at 277, and self.link stay.
wait_timeout ==
    /\ c_pc = "wait" /\ Unresolved
    /\ c_pc' = "idle"
    /\ report' = "PeerUnreachable"
    /\ UNCHANGED <<sessvars, c_polls, c_malformed, n_cmds, meshvars,
                   nonchat>>

\* The loop condition is false: the loop is left for line 263.
wait_resolved ==
    /\ c_pc = "wait" /\ ~Unresolved
    /\ c_pc' = "recall"
    /\ UNCHANGED <<sessvars, c_polls, c_malformed, n_cmds,
                   report, meshvars, nonchat>>

\* return RNS.Identity.recall(peer_hash) gives an identity:
\* RNS.Destination(...) is built and connect goes on to create the Link.
recall_ok ==
    /\ c_pc = "recall" /\ m_ident
    /\ c_pc' = "link"
    /\ UNCHANGED <<sessvars, c_polls, c_malformed, n_cmds,
                   report, meshvars, nonchat>>

\* A variant of _out_dest_for_peer without the test at 267: the Link is
\* made although recall gave None.
recall_none_links ==
    /\ c_pc = "recall" /\ ~m_ident
    /\ c_pc' = "link"
    /\ UNCHANGED <<sessvars, c_polls, c_malformed, n_cmds,
                   report, meshvars, nonchat>>

\* ... gives None (the mesh forgot it since the loop looked):
\* _out_dest_for_peer raises RuntimeError like after a timeout.
recall_none ==
    /\ c_pc = "recall" /\ ~m_ident
    /\ c_pc' = "idle"
    /\ report' = "PeerUnreachable"
    /\ UNCHANGED <<sessvars, c_polls, c_malformed, n_cmds, meshvars,
                   nonchat>>

\* self.link = RNS.Link(out_dest); the callbacks are set;
\* self._print_status("[i] Connecting to ...")
connect_link ==
    /\ c_pc = "link" /\ n_links < MaxLinks
    /\ n_links' = n_links + 1
    /\ link' = n_links + 1
    /\ l_status' = [l_status EXCEPT ![n_links + 1] = "PENDING"]
    /\ l_origin' = [l_origin EXCEPT ![n_links + 1] = "out"]
    /\ c_pc' = "idle"
    /\ report' = "Connecting"
    /\ UNCHANGED <<peer_hash, c_polls, c_malformed, n_cmds,
                   meshvars, nonchat>>

Connect ==
    \/ \E h \in HexInputs : connect_invalid(h)
    \/ \E h \in HexInputs : connect_begin(h)
    \/ wait_poll \/ wait_timeout \/ wait_resolved
    \/ recall_ok \/ recall_none \/ connect_link

\* ---------------------------- lines and commands (370-399, 426-456) ----
\* Lines are sequences of code points.

Colon == 58
Brace == 123

VerbAnnounce == <<58, 97, 110, 110, 111, 117, 110, 99, 101>>
VerbConnect == <<58, 99, 111, 110, 110, 101, 99, 116>>
VerbMe == <<58, 109, 101>>
VerbQuit == <<58, 113, 117, 105, 116>>

\* command.split(None, 1): parts[0] is the text up to the first whitespace,
\* parts[1], if there is any, what follows the whitespace after it.
RECURSIVE FirstWord(_)
FirstWord(c) ==
    IF c = <<>> \/ IsSpace(Head(c)) THEN <<>>
    ELSE <<Head(c)>> \o FirstWord(Tail(c))
AfterFirstWord(c) == LStrip(SubSeq(c, Len(FirstWord(c)) + 1, Len(c)))

Outcome(kind, arg) == [kind |-> kind, arg |-> arg]

\* _handle_command(chat, command): what the line is taken for.
HandleCommand(command) ==
    LET c == Strip(command)
        cmd == FirstWord(c)
        arg == Strip(AfterFirstWord(c))
    IN  IF c = <<>> THEN Outcome("empty", <<>>)
        ELSE IF Head(c) = Colon
             THEN IF cmd = VerbAnnounce THEN Outcome("announce", <<>>)
                  ELSE IF cmd = VerbConnect /\ arg # <<>>
                       THEN Outcome("connect", arg)
                  ELSE IF cmd = VerbMe THEN Outcome("me", <<>>)
                  ELSE IF cmd = VerbQuit THEN Outcome("quit", <<>>)
                  ELSE Outcome("invalid", c)
        ELSE Outcome("plain", c)

\* json.loads(s) for a line that has no quotation mark in it: the only
\* documents that begin with a brace are empty objects, braces with JSON
\* whitespace around and between them.
IsJsonSpace(c) == c \in {9, 10, 13, 32}
RECURSIVE JsonLStrip(_)
JsonLStrip(t) ==
    IF t # <<>> /\ IsJsonSpace(Head(t)) THEN JsonLStrip(Tail(t)) ELSE t
JsonEmptyObject(s) ==
    LET a == JsonLStrip(s)
    IN  /\ a # <<>> /\ Head(a) = Brace
        /\ LET b == JsonLStrip(Tail(a))
           IN  b # <<>> /\ Head(b) = 125 /\ JsonLStrip(Tail(b)) = <<>>

\* _from_inkplate_event(chat, s): a text that does not begin with a brace
\* goes to _handle_command; any other is parsed as a JSON event, an empty
\* object has no type and does nothing, a malformed one is printed.
FromInkplateEvent(s) ==
    IF Strip(s) = <<>> \/ Head(Strip(s)) # Brace THEN HandleCommand(s)
    ELSE IF JsonEmptyObject(s) THEN Outcome("empty", <<>>)
    ELSE Outcome("malformed", s)

\* Lines to read, in their parts: blanks, a first word, blanks, the rest
\* of the line, and the end of the line as readline() returns it.
VerbRssi == <<58, 114, 115, 115, 105>>
VerbBogus == <<58, 98, 111, 103, 117, 115>>
WordHello == <<104, 101, 108, 108, 111>>
WordWorld == <<119, 111, 114, 108, 100>>
WordAddress == <<97, 98, 99, 49, 50, 51>>
Pres == {<<>>, <<32>>}
Verbs ==
    {<<>>, VerbAnnounce, VerbConnect, VerbMe, VerbRssi, VerbQuit, VerbBogus,
     WordHello}
Seps == {<<32>>, <<32, 32>>, <<9>>}
Args == {<<>>, WordAddress, WordWorld}
Posts == {<<>>, <<10>>}
Parts ==
    {x \in [pre : Pres, verb : Verbs, sep : Seps, arg : Args, post : Posts] :
        x.verb = <<>> => x.arg = <<>>}
NoParts == [pre |-> <<>>, verb |-> <<>>, sep |-> <<>>, arg |-> <<>>,
            post |-> <<>>]
LineOf(x) == x.pre \o x.verb \o x.sep \o x.arg \o x.post

\* _handle_command is given a line.
handle_command(x) ==
    /\ p_line' = x
    /\ p_out' = HandleCommand(LineOf(x))
    /\ UNCHANGED <<txvars, closevars, rxvars, timevars, chatvars, textvars,
                   run_mode, framevars>>

Surfaces == {"console", "inkplate"}

\* Where a line read on a surface goes: _run_console_mode hands it to
\* _handle_command (419), the bridge's callback to _from_inkplate_event.
Route(l) ==
    IF l.surface = "console" THEN HandleCommand(l.s) ELSE FromInkplateEvent(l.s)

\* ------------------------------- ChatNode.send_text (297-314) ----

\* text.encode("utf-8", errors="replace") of one character, given as its
\* code point: one to four bytes; a lone surrogate is replaced by "?".
Utf8Char(c) ==
    IF c < 128 THEN <<c>>
    ELSE IF c < 2048 THEN <<192 + (c \div 64), 128 + (c % 64)>>
    ELSE IF c >= 55296 /\ c <= 57343 THEN <<63>>
    ELSE IF c < 65536
         THEN <<224 + (c \div 4096), 128 + ((c \div 64) % 64), 128 + (c % 64)>>
    ELSE <<240 + (c \div 262144), 128 + ((c \div 4096) % 64),
           128 + ((c \div 64) % 64), 128 + (c % 64)>>
RECURSIVE Utf8(_)
Utf8(text) == IF text = <<>> THEN <<>> ELSE Utf8Char(Head(text)) \o Utf8(Tail(text))

\* The message text of the events used here: "e" with an acute accent.
Texts == {<<233>>}

NoSend == [link |-> 0, data |-> <<>>, ok |-> TRUE]

\* chat.link and getattr(chat.link, "status", None) == RNS.Link.ACTIVE
LinkActive == link # 0 /\ l_status[link] = "ACTIVE"

\* The lines read here: " e-acute", "{x" and ":quit".
Lines == {<<32, 233>>, <<123, 120>>, VerbQuit}

NoLine == [surface |-> "none", s |-> <<>>]

\* main runs _run_screen_mode if -S was given and _run_console_mode if not
\* (510-514): lines come from one surface only, and from none once the
\* loop was left.
ModeOf(surface) == IF surface = "console" THEN "console" ELSE "screen"
InMode(surface) == run_mode \in {"start", ModeOf(surface)}

\* A line is read: sys.stdin.readline() returns it (417), or the bridge
\* calls _from_inkplate_event with the text of a frame (180).
take_line(surface, s) ==
    /\ c_pc = "idle" /\ InMode(surface)
    /\ run_mode' = ModeOf(surface)
    /\ c_pc' = "line"
    /\ t_line' = [surface |-> surface, s |-> s]
    /\ UNCHANGED <<sessvars, c_polls, c_malformed, n_cmds, meshvars, report,
                   t_text, t_checked, last_send, restvars>>

\* _handle_command (370-394) has a line that is no command: it comes to
\* the test of the link at 394.
plain_line ==
    /\ c_pc = "line" /\ Route(t_line).kind = "plain"
    /\ c_pc' = "plain"
    /\ t_text' = Route(t_line).arg
    /\ t_line' = NoLine
    /\ UNCHANGED <<sessvars, c_polls, c_malformed, n_cmds, meshvars, report,
                   t_checked, last_send, run_mode, restvars>>

\* json.loads raises: print("[Inkplate Event Error] Malformed data ...")
event_malformed ==
    /\ c_pc = "line" /\ Route(t_line).kind = "malformed"
    /\ report' = "MalformedEvent"
    /\ c_pc' = "idle"
    /\ t_line' = NoLine
    /\ UNCHANGED <<sessvars, c_polls, c_malformed, n_cmds, meshvars,
                   t_text, t_checked, last_send, run_mode, restvars>>

\* elif chat.link and ... == RNS.Link.ACTIVE: chat.send_text(command)
plain_dispatch_send ==
    /\ c_pc = "plain" /\ LinkActive
    /\ c_pc' = "check"
    /\ UNCHANGED <<sessvars, c_polls, c_malformed, n_cmds, meshvars, report,
                   textvars, run_mode, restvars>>

\* A variant of the else branch: the line is handed to send_text anyway.
plain_dispatch_always ==
    /\ c_pc = "plain" /\ ~LinkActive
    /\ c_pc' = "send"
    /\ UNCHANGED <<sessvars, c_polls, c_malformed, n_cmds, meshvars, report,
                   textvars, run_mode, restvars>>

\* else: chat._print_status("[!] Link is not active. Use :connect <hash>.")
plain_dispatch_inactive ==
    /\ c_pc = "plain" /\ ~LinkActive
    /\ report' = "LinkNotActive"
    /\ c_pc' = "idle"
    /\ t_text' = <<>>
    /\ UNCHANGED <<sessvars, c_polls, c_malformed, n_cmds, meshvars,
                   t_line, t_checked, last_send, run_mode, restvars>>

\* _from_inkplate_event, a SEND_MSG event (448-451) with a text, while
\* chat.link is set: chat.send_text(text)
event_send_msg(text) ==
    /\ c_pc = "idle" /\ InMode("inkplate")
    /\ run_mode' = "screen"
    /\ link # 0
    /\ c_pc' = "check"
    /\ t_text' = text
    /\ UNCHANGED <<sessvars, c_polls, c_malformed, n_cmds, meshvars, report,
                   t_line, t_checked, last_send, restvars>>

\* ... while chat.link is None (452-453): "[!] Send error: ..."
event_send_msg_error ==
    /\ c_pc = "idle" /\ InMode("inkplate")
    /\ run_mode' = "screen"
    /\ link = 0
    /\ report' = "SendError"
    /\ UNCHANGED <<sessvars, connvars, meshvars, textvars, restvars>>

\* send_text: if not self.link or status != ACTIVE: "[!] Link is not
\* active."; return
send_text_inactive ==
    /\ c_pc = "check" /\ ~LinkActive
    /\ report' = "LinkNotActive"
    /\ c_pc' = "idle"
    /\ t_text' = <<>>
    /\ UNCHANGED <<sessvars, c_polls, c_malformed, n_cmds, meshvars,
                   t_line, t_checked, last_send, run_mode, restvars>>

\* The test at 301 passes: the try block is entered.
send_text_checked ==
    /\ c_pc = "check" /\ LinkActive
    /\ c_pc' = "send"
    /\ t_checked' = link
    /\ UNCHANGED <<sessvars, c_polls, c_malformed, n_cmds, meshvars, report,
                   t_line, t_text, last_send, run_mode, restvars>>

\* What pkt.send() is called with: RNS.Packet(self.link, data), self.link
\* as it is now.
Sending(ok) == [link |-> link, data |-> Utf8(t_text), ok |-> ok]

\* pkt = RNS.Packet(self.link, data); pkt.send() succeed, and the text is
\* echoed: self._print_status(f"[Me] {text}")
send_packet_ok ==
    /\ c_pc = "send"
    /\ link # 0 /\ l_status[link] # "CLOSED"
    /\ last_send' = Sending(TRUE)
    /\ report' = "Sent"
    /\ c_pc' = "idle"
    /\ t_text' = <<>>
    /\ t_checked' = 0
    /\ UNCHANGED <<sessvars, c_polls, c_malformed, n_cmds, meshvars,
                   t_line, run_mode, restvars>>

\* A variant of the handler: the failed send leaves self.link as it is.
send_packet_fail_keeps ==
    /\ c_pc = "send"
    /\ last_send' = Sending(FALSE)
    /\ report' = "LinkSendFailure"
    /\ c_pc' = "idle"
    /\ t_text' = <<>>
    /\ t_checked' = 0
    /\ UNCHANGED <<sessvars, c_polls, c_malformed, n_cmds, meshvars,
                   t_line, run_mode, restvars>>

\* RNS.Packet(...) or pkt.send() raises (always so when self.link is None or
\* the Link is closed): "[!] Link packet send failed"; self.link = None
send_packet_fail ==
    /\ c_pc = "send"
    /\ last_send' = Sending(FALSE)
    /\ report' = "LinkSendFailure"
    /\ link' = 0
    /\ c_pc' = "idle"
    /\ t_text' = <<>>
    /\ t_checked' = 0
    /\ UNCHANGED <<l_status, l_origin, n_links, peer_hash, c_polls,
                   c_malformed, n_cmds, meshvars, t_line, run_mode, restvars>>

\* elif cmd == ":quit": "[i] Exiting..."; return False.  _run_console_mode
\* leaves its loop (419-420) and main ends; _from_inkplate_event drops the
\* value (432) and _run_screen_mode's loop (466-467) goes on.
cmd_quit ==
    /\ c_pc = "line" /\ Route(t_line).kind = "quit"
    /\ report' = "Exiting"
    /\ run_mode' = IF t_line.surface = "console" THEN "ended" ELSE run_mode
    /\ c_pc' = "idle"
    /\ t_line' = NoLine
    /\ UNCHANGED <<sessvars, c_polls, c_malformed, n_cmds, meshvars,
                   t_text, t_checked, last_send, restvars>>

SendText ==
    \/ \E surface \in Surfaces, s \in Lines : take_line(surface, s)
    \/ plain_line \/ event_malformed \/ cmd_quit
    \/ plain_dispatch_send \/ plain_dispatch_inactive
    \/ \E text \in Texts : event_send_msg(text)
    \/ event_send_msg_error
    \/ send_text_inactive \/ send_text_checked
    \/ send_packet_ok \/ send_packet_fail

\* ------------------------------- frames (128-135, 158-177) ----

TXTP == <<84, 88, 84, 80>>
JCTL == <<74, 67, 84, 76>>

\* The item types given: the two send_json and send_txtp use, and the
\* names of the inbound tags.
FrameTypes == {"TXTP", "JCTL", "TXIN", "EVNT"}

\* The characters of the messages framed: "A", a space, a line feed.
FrameAlphabet == {65, 32, 10}
RECURSIVE MsgsOfLen(_)
MsgsOfLen(n) ==
    IF n = 0 THEN {<<>>}
    ELSE {Append(m, c) : m \in MsgsOfLen(n - 1), c \in FrameAlphabet}
Msgs == UNION {MsgsOfLen(n) : n \in 0..MaxFrameLen}

\* if frame_type == "JCTL": header = b"JCTL" else: header = b"TXTP"
TxHeader(frame_type) == IF frame_type = "JCTL" THEN JCTL ELSE TXTP

\* data = msg.encode("utf-8")[:60000]
TxData(msg) == SubSeq(Utf8(msg), 1, Min(Len(Utf8(msg)), MaxPayload))

\* frame = header + struct.pack("<H", len(data)) + data
TxFrame(frame_type, msg) ==
    TxHeader(frame_type) \o LenBytes(Len(TxData(msg))) \o TxData(msg)

NoFrame == [kind |-> "none", tag |-> <<>>, data |-> <<>>, text |-> <<>>]
Rejected(why) == [kind |-> why, tag |-> <<>>, data |-> <<>>, text |-> <<>>]

\* One pass of _rx_worker's loop over bytes that are all there: the tag is
\* tested, then the length, then the payload is decoded and stripped and
\* the text, without the tag, is what the callback gets.
RxFrame(w) ==
    IF Len(w) < 4 THEN Rejected("short")
    ELSE IF SubSeq(w, 1, 4) \notin InboundTags THEN Rejected("tag")
    ELSE IF Len(w) < 6 THEN Rejected("short")
    ELSE LET L == LenOf(SubSeq(w, 5, 6))
         IN  IF L = 0 \/ L > MaxPayload THEN Rejected("length")
             ELSE IF Len(w) < 6 + L THEN Rejected("short")
             ELSE [kind |-> "frame", tag |-> SubSeq(w, 1, 4),
                   data |-> SubSeq(w, 7, 6 + L),
                   text |-> TextOf(SubSeq(w, 7, 6 + L))]

NoItemIn == [frame_type |-> "none", msg |-> <<>>]

\* _tx_worker frames an item.
frame_encode(frame_type, msg) ==
    /\ f_in' = [frame_type |-> frame_type, msg |-> msg]
    /\ f_wire' = TxFrame(frame_type, msg)
    /\ f_out' = NoFrame
    /\ UNCHANGED <<txvars, closevars, rxvars, timevars, chatvars, textvars,
                   run_mode, cmdvars, f_long>>

\* _rx_worker reads the bytes.
frame_decode ==
    /\ f_wire # <<>> /\ f_out = NoFrame
    /\ f_out' = RxFrame(f_wire)
    /\ UNCHANGED <<f_in, f_wire, f_long>>
    /\ UNCHANGED <<txvars, closevars, rxvars, timevars, chatvars, textvars,
                   run_mode, cmdvars>>

\* Long messages are kept in runs: [c, n] is the character c, n times; the
\* bytes of a run are the bytes of the character, n times.
LongChars == {65, 233, 8364}
Counts ==
    {1, 2, MaxPayload \div 3, MaxPayload \div 2, MaxPayload - 1, MaxPayload,
     MaxPayload + 1}
Runs == [c : LongChars, n : Counts]
RECURSIVE RunsOfLen(_)
RunsOfLen(k) ==
    IF k = 0 THEN {<<>>}
    ELSE {Append(m, r) : m \in RunsOfLen(k - 1), r \in Runs}
LongMsgs == UNION {RunsOfLen(k) : k \in 1..MaxRuns}

\* msg.encode("utf-8"), run by run.
Utf8Runs(msg) ==
    [i \in 1..Len(msg) |-> [pat |-> Utf8Char(msg[i].c), n |-> msg[i].n]]

\* len() of bytes kept in runs.
RunLen(b) == Len(b.pat) * b.n
RECURSIVE BytesLen(_)
BytesLen(bs) == IF bs = <<>> THEN 0 ELSE RunLen(Head(bs)) + BytesLen(Tail(bs))

\* A variant of the slice: nothing is cut.
SliceAll(bs, k) == bs

\* bs[:k]: the first k bytes, which may end inside a character.
RECURSIVE Slice(_, _)
Slice(bs, k) ==
    IF bs = <<>> \/ k = 0 THEN <<>>
    ELSE LET h == Head(bs)
             whole == k \div Len(h.pat)
             part == k % Len(h.pat)
         IN  IF RunLen(h) <= k
             THEN <<h>> \o Slice(Tail(bs), k - RunLen(h))
             ELSE (IF whole > 0 THEN <<[pat |-> h.pat, n |-> whole]>> ELSE <<>>)
                  \o (IF part > 0
                      THEN <<[pat |-> SubSeq(h.pat, 1, part), n |-> 1]>>
                      ELSE <<>>)

\* struct.pack("<H", n): two bytes, low byte first; struct.error if n does
\* not fit in 16 bits.
Pack16(n) ==
    IF n < 65536 THEN [ok |-> TRUE, bytes |-> LenBytes(n)]
    ELSE [ok |-> FALSE, bytes |-> <<>>]

\* Lines 128-134 for a message in runs; ok is FALSE if a line raises.
TxFrameRuns(frame_type, msg) ==
    LET data == Slice(Utf8Runs(msg), MaxPayload)
    IN  [ok |-> Pack16(BytesLen(data)).ok,
         header |-> TxHeader(frame_type),
         len |-> Pack16(BytesLen(data)).bytes,
         data |-> data]

NoLong == [frame_type |-> "none", msg |-> <<>>, frame |-> <<>>]

\* _tx_worker frames a long item it took from the queue.
frame_encode_long(frame_type, msg) ==
    /\ f_long = NoLong
    /\ f_long' = [frame_type |-> frame_type, msg |-> msg,
                  frame |-> <<TxFrameRuns(frame_type, msg)>>]
    /\ UNCHANGED <<f_in, f_wire, f_out>>
    /\ UNCHANGED <<txvars, closevars, rxvars, timevars, chatvars, textvars,
                   run_mode, cmdvars>>

\* ser.write(frame); ser.flush(): the worker goes on to the next item.
frame_long_write ==
    /\ f_long # NoLong
    /\ f_long' = NoLong
    /\ UNCHANGED <<f_in, f_wire, f_out>>
    /\ UNCHANGED <<txvars, closevars, rxvars, timevars, chatvars, textvars,
                   run_mode, cmdvars>>

\* ------------------------------------ mesh events and callbacks ----

\* The mesh learns or forgets the route to the peer being resolved.
mesh_path ==
    /\ m_path' = ~m_path
    /\ UNCHANGED <<m_ident, sessvars, connvars, report, nonchat>>

\* The mesh learns or forgets the identity of the peer being resolved.
mesh_ident ==
    /\ m_ident' = ~m_ident
    /\ UNCHANGED <<m_path, sessvars, connvars, report, nonchat>>

\* A Link created by connect is established: _on_link_established (356-360)
on_link_established(l) ==
    /\ l_status[l] = "PENDING" /\ l_origin[l] = "out"
    /\ l_status' = [l_status EXCEPT ![l] = "ACTIVE"]
    /\ link' = l
    /\ report' = "LinkEstablished"
    /\ UNCHANGED <<l_origin, n_links, peer_hash, connvars, meshvars, nonchat>>

\* A Link is closed (by the peer, by a timeout of the mesh):
\* _on_link_closed (362-364), set on outgoing (291) and incoming (322) Links
on_link_closed(l) ==
    /\ l_status[l] \in {"PENDING", "ACTIVE"}
    /\ l_status' = [l_status EXCEPT ![l] = "CLOSED"]
    /\ link' = 0
    /\ report' = "LinkClosed"
    /\ UNCHANGED <<l_origin, n_links, peer_hash, connvars, meshvars, nonchat>>

\* A peer's Link to rx_dest is established:
\* _on_incoming_link_established (318-325)
on_incoming_link_established ==
    /\ n_links < MaxLinks
    /\ n_links' = n_links + 1
    /\ l_status' = [l_status EXCEPT ![n_links + 1] = "ACTIVE"]
    /\ l_origin' = [l_origin EXCEPT ![n_links + 1] = "in"]
    /\ link' = n_links + 1
    /\ report' = "IncomingLinkEstablished"
    /\ UNCHANGED <<peer_hash, connvars, meshvars, nonchat>>

MeshEvents ==
    \/ mesh_path \/ mesh_ident
    \/ \E l \in Links : on_link_established(l)
    \/ \E l \in Links : on_link_closed(l)
    \/ on_incoming_link_established

\* ------------------------------------------------------------- specs ----

InitTx ==
    /\ q = <<>>
    /\ n_admitted = 0
    /\ s_pc = [t \in Senders |-> "idle"]
    /\ s_kind = [t \in Senders |-> "none"]
    /\ send_raised = FALSE
    /\ tx_pc = "loop"
    /\ tx_ser = "None"
    /\ tx_item = NoItem
    /\ tx_last = 0
    /\ tx_failed = 0
    /\ n_dequeued = 0

InitClose ==
    /\ stop = FALSE
    /\ close_pc = "idle"
    /\ close_calls = 0

InitRx ==
    /\ sent = <<>>
    /\ wire = <<>>
    /\ inbuf = <<>>
    /\ on_text = FALSE
    /\ rx_pc = "loop"
    /\ rx_ser = "None"
    /\ rx_buf = <<>>
    /\ rx_L = 0
    /\ delivered = <<>>
    /\ rx_fault = FALSE

\* ChatNode.__init__ (228-229); the mesh may or may not know the peer.
InitChat ==
    /\ link = 0
    /\ l_status = [l \in Links |-> "unborn"]
    /\ l_origin = [l \in Links |-> "none"]
    /\ n_links = 0
    /\ peer_hash = {}
    /\ c_pc = "idle"
    /\ c_polls = 0
    /\ c_malformed = FALSE
    /\ m_path = FALSE
    /\ m_ident = FALSE
    /\ n_cmds = 0
    /\ report = "none"

InitText ==
    /\ t_line = NoLine
    /\ t_text = <<>>
    /\ t_checked = 0
    /\ last_send = NoSend

InitCmd ==
    /\ run_mode = "start"
    /\ p_line = NoParts
    /\ p_out = Outcome("none", <<>>)

InitFrame ==
    /\ f_in = NoItemIn
    /\ f_wire = <<>>
    /\ f_out = NoFrame
    /\ f_long = NoLong

InitTime ==
    /\ since_stop = 0
    /\ tx_spent = [pc |-> "none", t |-> 0]
    /\ rx_spent = [pc |-> "none", t |-> 0]

Init ==
    /\ InitTx /\ InitClose /\ InitRx /\ InitChat /\ InitText /\ InitCmd
    /\ InitFrame /\ InitTime

NextTx == Send \/ TxWorker \/ Close

SpecTx == Init /\ [][NextTx]_vars

NextRx == Peripheral \/ set_on_text \/ RxWorker \/ Close

SpecRx == Init /\ [][NextRx]_vars

NextChat == Connect \/ MeshEvents

SpecChat == Init /\ [][NextChat]_vars

\* The address given to :connect while messages are sent.
SendPeers == {<<"a", "1">>}

\* chat.connect is called (385, 446) while the loop runs.
cmd_connect(h) == run_mode # "ended" /\ connect_begin(h)

\* Messages are sent while Links are made to peers that resolve at once,
\* and are established and closed.
NextSend ==
    \/ SendText
    \/ \E h \in SendPeers : cmd_connect(h)
    \/ wait_resolved \/ recall_ok \/ connect_link
    \/ MeshEvents
SpecSend == Init /\ [][NextSend]_vars

\* Lines are given to _handle_command.
NextCmd == \E x \in Parts : handle_command(x)
SpecCmd == Init /\ [][NextCmd]_vars

\* Items are framed and the bytes are read back.
NextFrame ==
    \/ \E frame_type \in FrameTypes, msg \in Msgs : frame_encode(frame_type, msg)
    \/ frame_decode
SpecFrame == Init /\ [][NextFrame]_vars

\* Long items are framed and written.
NextLong ==
    \/ \E frame_type \in Kinds, msg \in LongMsgs :
          frame_encode_long(frame_type, msg)
    \/ frame_long_write
SpecLong == Init /\ [][NextLong]_vars

\* ------------------------------------------- close() and time ----

\* From the moment the stop flag is set the time each worker spends at a
\* position is kept.  A worker passes each position at most once after that
\* moment (its loop ends at the next test of the flag), so the position
\* names the call.  Statements that do not block take no time.

MaxClock == 2 * join_timeout + 1

WorkersDone == tx_pc = "done" /\ rx_pc = "done"

TxSpent == IF tx_spent.pc = tx_pc THEN tx_spent.t ELSE 0
RxSpent == IF rx_spent.pc = rx_pc THEN rx_spent.t ELSE 0

\* The first close(): self._stop = True.  Each worker has just entered the
\* call it is in, which is when it has the longest time left in it.
close_begin_timed ==
    /\ ~stop
    /\ set_stop
    /\ since_stop' = 0
    /\ tx_spent' = [pc |-> tx_pc, t |-> 0]
    /\ rx_spent' = [pc |-> rx_pc, t |-> 0]

\* A later close().
close_again == stop /\ close_begin

\* The outbound worker can let time pass: it has ended, or it is blocked in
\* a call that has not reached its limit (q.get returns at once when an item
\* is pending).
TxMayWait ==
    \/ tx_pc = "done"
    \/ tx_pc = "get" /\ q = <<>> /\ TxSpent < get_timeout
    \/ tx_pc = "write" /\ TxSpent < write_timeout
    \/ tx_pc = "sleep" /\ TxSpent < backoff

\* The inbound worker can let time pass: it has ended, it is in the
\* callback, it sleeps, or it is in the ser.read that was going on when the
\* flag was set (_read_exact makes no further ser.read once the flag is set,
\* and ser.read returns at once when bytes are there).
RxMayWait ==
    \/ rx_pc = "done"
    \/ rx_pc = "callback"
    \/ /\ Reading /\ Len(rx_buf) < Wanted /\ inbuf = <<>>
       /\ rx_spent.pc = rx_pc /\ rx_spent.t < ser_timeout
    \/ rx_pc = "sleep" /\ RxSpent < backoff
    \/ rx_pc = "sleep_serial" /\ RxSpent < backoff_serial

\* The first close() can let time pass: it has returned, or its two joins
\* have not used up their timeouts.
CloseMayWait ==
    \/ close_pc = "idle"
    \/ close_calls > 1
    \/ since_stop < 2 * join_timeout

\* A tenth of a second passes.
tick ==
    /\ stop
    /\ TxMayWait /\ RxMayWait /\ CloseMayWait
    /\ since_stop' = Min(since_stop + 1, MaxClock)
    /\ tx_spent' = IF tx_pc = "done" THEN tx_spent
                   ELSE [pc |-> tx_pc, t |-> TxSpent + 1]
    /\ rx_spent' = IF rx_pc \in {"done", "callback"} THEN rx_spent
                   ELSE [pc |-> rx_pc, t |-> RxSpent + 1]
    /\ UNCHANGED <<txvars, closevars, rxvars, appvars>>

\* except queue.Empty: q.get raises it when its timeout is over.
tx_get_empty_timed == (stop => TxSpent = get_timeout) /\ tx_get_empty

\* time.sleep(0.4) is over.
tx_sleep_timed == (stop => TxSpent = backoff) /\ tx_sleep

\* time.sleep(1.0) / time.sleep(0.4) is over.
rx_sleep_timed ==
    /\ stop => RxSpent = (IF rx_pc = "sleep_serial" THEN backoff_serial
                          ELSE backoff)
    /\ rx_sleep

TxWorkerTimed ==
    \/ tx_loop \/ tx_open \/ tx_open_skip \/ tx_open_fail \/ tx_get
    \/ tx_get_empty_timed
    \/ tx_write \/ tx_write_fail \/ tx_except \/ tx_sleep_timed \/ tx_exit

RxWorkerTimed ==
    \/ rx_loop \/ rx_open \/ rx_open_skip \/ rx_open_fail
    \/ read_exact_read \/ read_exact_timeout \/ read_exact_error
    \/ rx_hdr_bad \/ rx_hdr_ok \/ rx_len_short \/ rx_len_bad \/ rx_len_ok
    \/ rx_data_call \/ rx_data_nocb
    \/ rx_callback_return \/ rx_callback_raise
    \/ rx_except \/ rx_sleep_timed \/ rx_exit

\* The joins of the first close() are over: both threads have ended, or a
\* join has timed out.
close_join_timed ==
    /\ close_calls = 1 => (WorkersDone \/ since_stop >= join_timeout)
    /\ close_join

CloseTimed == close_begin_timed \/ close_again \/ close_join_timed

\* What has kept the workers busy when close() is called: a sender, the
\* peripheral sending valid frames, the callback being set.
EnvClose ==
    \/ ~stop /\ n_admitted < MaxCloseItems /\ send_put(1, "TXTP")
    \/ \E c \in {x \in Chunks : x.kind = "frame"} :
          ~stop /\ Len(sent) < MaxCloseFrames /\ peripheral_send(c)
    \/ ~stop /\ arrive
    \/ ~stop /\ set_on_text

NextClose == EnvClose \/ TxWorkerTimed \/ RxWorkerTimed \/ CloseTimed \/ tick

SpecClose == Init /\ [][NextClose]_vars

\* ------------------------------------------------ outbound claims ----

QIds(qq) == [i \in 1..Len(qq) |-> qq[i].id]
Quiescent == \A t \in Senders : s_pc[t] = "idle"

\* C1: drop-oldest overflow.  Items are numbered in the order put_nowait
\* admitted them.  The pending items are always the most recently admitted
\* ones, in admission order, with none missing in between; and when no send
\* call is in progress and the worker has dequeued nothing, the queue holds
\* exactly the last QueueMaxsize admitted items (all of them while no more
\* than QueueMaxsize were admitted): every item dropped is older than
\* every item kept.
C1_DropOldest ==
    /\ QIds(q) = [i \in 1..Len(q) |-> n_admitted - Len(q) + i]
    /\ (Quiescent /\ n_dequeued = 0)
          => Len(q) = Min(n_admitted, QueueMaxsize)

\* C1 witness: one item more than the capacity was admitted before the
\* worker dequeued any; the oldest is gone, the rest are pending in order.
C1_Witness ==
    /\ Quiescent /\ n_dequeued = 0
    /\ n_admitted = QueueMaxsize + 1
    /\ QIds(q) = [i \in 1..QueueMaxsize |-> i + 1]

\* C2: every send call returns without raising (stated as the claim has it;
\* the code violates it: two senders meeting a full queue).
C2_SendNeverRaises == ~send_raised

\* C3: outbound FIFO.  Every item the worker hands to ser.write was admitted
\* after the item it handed over before, whether or not a write failed and
\* the port was reopened in between.
C3_Fifo == [][tx_last' # tx_last => tx_last' > tx_last]_vars

\* C3 witness: a write failed, and a later item was handed to a write after
\* the port was reopened.
C3_Witness == tx_failed > 0 /\ tx_last > tx_failed /\ tx_ser = "open"

\* No item already handed to a write is pending or about to be written.
NotHandedAgain ==
    /\ \A i \in 1..Len(q) : q[i].id > tx_last
    /\ tx_pc = "write" => tx_item.id > tx_last

\* C4: at-most-once delivery.  No item is handed to ser.write twice; a
\* failed write leaves the queue as it was (the item is not put back), the
\* except clause drops the handle, and the dequeue after the reopen takes the
\* next pending item.
C4_AtMostOnce ==
    [][/\ NotHandedAgain /\ NotHandedAgain'
       /\ (tx_pc = "write" /\ tx_pc' = "except") => q' = q
       /\ (tx_pc = "except" /\ tx_pc' # "except") => tx_ser' = "None"
       /\ (tx_pc = "get" /\ tx_pc' = "write")
             => (tx_ser = "open" /\ tx_item' = Head(q) /\ q' = Tail(q))]_vars

\* C4 witness: after a failed write the port is open again and the worker
\* holds a later item for writing while the failed one is nowhere.
C4_Witness ==
    /\ tx_failed > 0 /\ tx_ser = "open" /\ tx_pc = "write"
    /\ tx_item.id > tx_failed
    /\ \A i \in 1..Len(q) : q[i].id # tx_failed

\* ------------------------------------------------- inbound claims ----

\* The stream sent so far is garbage followed by one valid frame.
GarbageThenFrame ==
    /\ sent # <<>>
    /\ sent[Len(sent)].kind = "frame"
    /\ \A i \in 1..(Len(sent) - 1) : sent[i].kind = "garbage"

\* Every byte sent was taken off the line and out of the input buffer, and
\* the worker is between frames.
StreamConsumed ==
    /\ wire = <<>> /\ inbuf = <<>>
    /\ rx_buf = <<>>
    /\ rx_pc \in {"loop", "open", "hdr"}

\* C5: resynchronisation (stated as the claim has it; the code violates it).
\* With the callback set, the port healthy, no read timing out and no close,
\* a stream of garbage followed by one valid frame, once consumed, has led to
\* exactly one callback, with that frame's text.
C5_Resync ==
    (GarbageThenFrame /\ StreamConsumed /\ ~rx_fault /\ ~stop /\ on_text)
        => /\ Len(delivered) = 1
           /\ delivered[1].text = TextOf(sent[Len(sent)].payload)

\* C6: partial frames are never delivered (stated as the claim has it; the
\* code violates it): every callback was given a payload of exactly the
\* number of bytes the frame's length field announced.
C6_NoPartialDelivery ==
    \A i \in 1..Len(delivered) : delivered[i].got = delivered[i].L

\* C7: a callback that raises does not end the inbound worker.  The step in
\* which the callback raises leaves the worker at the head of its loop with
\* the handle it had, still open, and without the stop flag the worker does
\* not leave the loop.
C7_CallbackFaultContained ==
    [][/\ (rx_pc = "callback" /\ rx_pc' # "callback")
            => (rx_pc' = "loop" /\ rx_ser = "open" /\ rx_ser' = rx_ser)
       /\ (rx_pc' \in {"exit", "done"} /\ rx_pc \notin {"exit", "done"})
            => stop]_vars

\* C7 witness: a callback raised, and a later frame was read in full and
\* given to the callback by the same worker.
C7_Witness ==
    \E i \in 1..Len(delivered) :
        /\ delivered[i].raised
        /\ \E j \in (i + 1)..Len(delivered) :
              delivered[j].got = delivered[j].L
        /\ ~rx_fault

\* --------------------------------------------------- close() claim ----

\* C8: shutdown (stated as the claim has it; the code violates it).  close()
\* is over at the latest two join timeouts after it set the stop flag; once
\* more time than that has passed since the flag was set, both workers have
\* ended, whatever each was doing when the flag was set.
C8_Shutdown == (since_stop > 2 * join_timeout) => WorkersDone

\* --------------------------------------------------- connect claims ----

\* A step that is a call of connect being made (the parse and what follows
\* it up to the first wait).
ConnectCalled == n_cmds' # n_cmds

\* C9: connect with a malformed hex address.  The call reports
\* InvalidAddress and returns at once; the current link, the state of every
\* Link object and the stored peer address are after the call what they were
\* before it; no iteration of the resolution loop runs (no route request) and
\* no Link is created.
C9_MalformedAddress ==
    [][(ConnectCalled /\ c_malformed')
          => /\ report' = "InvalidAddress"
             /\ c_pc' = "idle"
             /\ link' = link
             /\ l_status' = l_status
             /\ peer_hash' = peer_hash
             /\ c_polls' = c_polls
             /\ n_links' = n_links /\ l_origin' = l_origin]_vars

\* C9 witness: a malformed address was given to connect while a Link made by
\* an earlier connect was current and active and a peer address was stored;
\* both are still there.
C9_Witness ==
    /\ c_malformed /\ report = "InvalidAddress" /\ c_pc = "idle"
    /\ link # 0 /\ l_status[link] = "ACTIVE" /\ l_origin[link] = "out"
    /\ peer_hash # {}

\* C10: connect to a peer the mesh does not resolve (stated as the claim has
\* it; the code violates it).  When connect gives up with PeerUnreachable,
\* the session has no current link and no stored peer address.
C10_UnreachableLeavesIdle ==
    [][(c_pc \in {"wait", "recall"} /\ c_pc' = "idle"
            /\ report' = "PeerUnreachable")
          => (link' = 0 /\ peer_hash' = {})]_vars

\* The UTF-8 bytes of the texts used, written out.
EncodedAs(text) ==
    CASE text = <<233>> -> <<195, 169>>
      [] text = <<123, 120>> -> <<123, 120>>

C12_PlainLineNotActive ==
    [][(c_pc \in {"plain", "check"} /\ ~LinkActive /\ c_pc' # c_pc)
          => /\ report' = "LinkNotActive"
             /\ c_pc' = "idle"
             /\ last_send' = last_send
             /\ link' = link /\ l_status' = l_status
             /\ peer_hash' = peer_hash]_vars

\* A plain line was refused while the Link made by connect is not yet
\* established.
C12_Witness ==
    /\ report = "LinkNotActive" /\ c_pc = "idle"
    /\ link # 0 /\ l_status[link] = "PENDING"
    /\ last_send = NoSend

\* A line that is not empty once stripped and does not begin with a colon.
IsMessage(s) == Strip(s) # <<>> /\ Head(Strip(s)) # Colon

\* C13: a message line read on either surface while the link is Active is
\* taken for a message: it goes on to _handle_command's test of the link
\* with the stripped line as the text to send.
C13_EveryLineIsMessage ==
    [][(c_pc = "line" /\ IsMessage(t_line.s) /\ LinkActive /\ c_pc' # "line")
          => (c_pc' = "plain" /\ t_text' = Strip(t_line.s))]_vars

\* C14: a link-closed event for a Link that is no longer the current one
\* leaves the current Link reference and that Link's state unchanged.
C14_LateCloseIgnored ==
    [][\A l \in Links :
          (l_status[l] # "CLOSED" /\ l_status'[l] = "CLOSED"
              /\ link # 0 /\ link # l)
            => (link' = link /\ l_status'[link] = l_status[link])]_vars

\* C15: when a peer's Link is established while the current Link is Active,
\* the current Link stays the current one.
C15_IncomingOnlyIfNoneActive ==
    [][(n_links' = n_links + 1 /\ l_origin'[n_links'] = "in" /\ LinkActive)
          => link' = link]_vars

\* C16: between send_text's test of the link and its send no callback takes
\* effect: at the send the reference is the Link that was tested, still
\* set and Active.
C16_LinkAccessSerialized ==
    (c_pc = "send") => (link # 0 /\ link = t_checked)

\* What the command set gives for a line in its parts: nothing for an empty
\* line; for a first word that begins with a colon the command of that
\* verb, Connect with the argument, and InvalidCommand for any other verb;
\* the line without the blanks around it as a message for any other line.
\* A :connect without an argument is left open.
Expected(x) ==
    IF x.verb = <<>> THEN {Outcome("empty", <<>>)}
    ELSE IF Head(x.verb) # 58
         THEN {Outcome("plain", IF x.arg = <<>> THEN x.verb
                                ELSE x.verb \o x.sep \o x.arg)}
    ELSE IF x.verb = VerbAnnounce THEN {Outcome("announce", <<>>)}
    ELSE IF x.verb = VerbConnect
         THEN IF x.arg = <<>>
              THEN {Outcome("connect", <<>>), Outcome("invalid", x.verb)}
              ELSE {Outcome("connect", x.arg)}
    ELSE IF x.verb = VerbMe THEN {Outcome("me", <<>>)}
    ELSE IF x.verb = VerbRssi THEN {Outcome("rssi", <<>>)}
    ELSE IF x.verb = VerbQuit THEN {Outcome("quit", <<>>)}
    ELSE {[kind |-> "invalid", arg |-> a] : a \in {x.verb, x.verb \o x.sep \o x.arg}}

\* C17: _handle_command takes every line for what the command set says:
\* no-op, Announce, Connect(arg), ShowAddress, ShowLinkStats, Quit,
\* InvalidCommand or Plain(line).
C17_CommandParsing ==
    p_out.kind # "none" => p_out \in Expected(p_line)

\* C18: once a :quit line is handled, on either surface, the run loop is
\* left, and no line is read after that.
C18_QuitTerminates ==
    [][/\ (c_pc = "line" /\ Strip(t_line.s) = VerbQuit /\ c_pc' # "line")
            => run_mode' = "ended"
       /\ run_mode = "ended" => (c_pc' = c_pc /\ t_line' = t_line)]_vars

\* The four bytes of a tag.
TagBytes(frame_type) ==
    CASE frame_type = "TXTP" -> <<84, 88, 84, 80>>
      [] frame_type = "JCTL" -> <<74, 67, 84, 76>>
      [] frame_type = "TXIN" -> <<84, 88, 73, 78>>
      [] frame_type = "EVNT" -> <<69, 86, 78, 84>>

\* C19: reading the bytes written for (tag, payload) gives the tag and the
\* payload back, for each of the four tags and for every payload, the empty
\* one included (the messages are ASCII: the payload is the message).
C19_FrameRoundTrip ==
    f_out # NoFrame
      => /\ f_out.kind = "frame"
         /\ f_out.tag = TagBytes(f_in.frame_type)
         /\ f_out.data = f_in.msg

\* C20: the callback is called only for accepted frames.  A tag of four
\* bytes that is neither TXIN nor EVNT, and a length of 0 or more than
\* 60000, make the worker discard the input buffer and go back to the head
\* of its loop without a call; the callback is called only from the read
\* of a payload, which is entered only with an accepted length, after a
\* length read entered only with an accepted tag.
C20_CallbackOnlyForAccepted ==
    [][/\ (rx_pc = "hdr" /\ Len(rx_buf) = 4 /\ rx_buf \notin InboundTags
              /\ rx_pc' # "hdr")
            => (inbuf' = <<>> /\ rx_pc' = "loop"
                /\ Len(delivered') = Len(delivered))
       /\ (rx_pc = "len" /\ Len(rx_buf) = 2
              /\ (LenOf(rx_buf) = 0 \/ LenOf(rx_buf) > MaxPayload)
              /\ rx_pc' # "len")
            => (inbuf' = <<>> /\ rx_pc' = "loop"
                /\ Len(delivered') = Len(delivered))
       /\ (Len(delivered') > Len(delivered))
            => (rx_pc = "data" /\ rx_L >= 1 /\ rx_L <= MaxPayload)
       /\ (rx_pc' = "data" /\ rx_pc # "data")
            => (rx_pc = "len" /\ Len(rx_buf) = 2 /\ LenOf(rx_buf) >= 1
                /\ LenOf(rx_buf) <= MaxPayload /\ rx_L' = LenOf(rx_buf))
       /\ (rx_pc' = "len" /\ rx_pc # "len")
            => (rx_pc = "hdr" /\ rx_buf \in InboundTags)]_vars

\* A frame header announcing the length 0 and a tag's worth of noise were
\* read without a read timing out or failing, and nothing was called.
C20_Witness ==
    /\ Len(sent) = 2
    /\ sent[1] = GarbageChunk(TXIN \o <<0, 0>>)
    /\ sent[2] = GarbageChunk(<<0, 0, 0, 0>>)
    /\ StreamConsumed /\ rx_pc = "loop"
    /\ ~rx_fault /\ ~stop /\ on_text
    /\ delivered = <<>>

\* C21: connect creates a Link only from the position after the test at
\* 267, which is reached only when the recall at 263 gave an identity,
\* which is called only when the loop's condition found both a route and an
\* identity; whatever the mesh answers before, between and after.
C21_LinkOnlyWithIdentity ==
    [][/\ (n_links' = n_links + 1 /\ l_origin'[n_links'] = "out")
            => c_pc = "link"
       /\ (c_pc' = "link" /\ c_pc # "link")
            => (c_pc = "recall" /\ m_ident)
       /\ (c_pc' = "recall" /\ c_pc # "recall")
            => (c_pc = "wait" /\ m_path /\ m_ident)]_vars

\* connect made a Link after polling more than once, and the mesh has
\* since lost both the route and the identity.
C21_Witness ==
    /\ c_pc = "idle" /\ report = "Connecting"
    /\ link # 0 /\ l_origin[link] = "out" /\ l_status[link] = "PENDING"
    /\ c_polls >= 1
    /\ ~m_path /\ ~m_ident

\* The byte at position i of bytes kept in runs.
RECURSIVE ByteAt(_, _)
ByteAt(bs, i) ==
    IF i <= RunLen(Head(bs))
    THEN Head(bs).pat[((i - 1) % Len(Head(bs).pat)) + 1]
    ELSE ByteAt(Tail(bs), i - RunLen(Head(bs)))

\* Positions near both ends of n bytes.
Ends(n) == {i \in {1, 2, 3, 4, n - 3, n - 2, n - 1, n} : 1 <= i /\ i <= n}

\* Runs written out, for short messages.
RECURSIVE Repeat(_, _)
Repeat(pat, n) == IF n = 0 THEN <<>> ELSE pat \o Repeat(pat, n - 1)
RECURSIVE Expand(_)
Expand(bs) ==
    IF bs = <<>> THEN <<>>
    ELSE Repeat(Head(bs).pat, Head(bs).n) \o Expand(Tail(bs))
ExpandMsg(msg) == Expand([i \in 1..Len(msg) |-> [pat |-> <<msg[i].c>>, n |-> msg[i].n]])

\* C22: the frame made of an item is made without an error; its length
\* field is the number of payload bytes, at most 60000; the payload is the
\* encoding of the message if that has at most 60000 bytes and its first
\* 60000 bytes if it has more (compared near both ends, and byte by byte
\* with the frame of the written-out message when that is short).
C22_FrameLengthAndTruncation ==
    f_long # NoLong
      => LET fr == f_long.frame[1]
             enc == Utf8Runs(f_long.msg)
             n == BytesLen(fr.data)
         IN  /\ fr.ok
             /\ n <= MaxPayload
             /\ LenOf(fr.len) = n
             /\ n = Min(BytesLen(enc), MaxPayload)
             /\ \A i \in Ends(n) : ByteAt(fr.data, i) = ByteAt(enc, i)
             /\ BytesLen(enc) <= 8
                  => fr.header \o fr.len \o Expand(fr.data)
                       = TxFrame(f_long.frame_type, ExpandMsg(f_long.msg))

\* An item of 60001 bytes was framed: 60000 bytes, the last character cut
\* after its second byte.
C22_Witness ==
    /\ f_long # NoLong
    /\ BytesLen(Utf8Runs(f_long.msg)) = MaxPayload + 1
    /\ LET d == f_long.frame[1].data
       IN  /\ BytesLen(d) = MaxPayload
           /\ d[Len(d)] = [pat |-> <<226, 130>>, n |-> 1]

\* C23: a link-established event for an outgoing Link that is not the
\* current one, while another Link is current, leaves the current Link the
\* current one.
C23_LateEstablishedIgnored ==
    [][\A l \in Links :
          (l_origin[l] = "out" /\ l_status[l] = "PENDING"
              /\ l_status'[l] = "ACTIVE" /\ link # 0 /\ link # l)
            => link' = link]_vars

====
